---- MODULE Spec2Model ----
(***************************************************************************)
(* Model of BE/services/firebase_service.py: the FirebaseService facade    *)
(* over Firebase Auth, Storage (bucket of blobs) and the Firestore         *)
(* collection 'presentations'.                                             *)
(*                                                                         *)
(* Python dictionaries are functions whose DOMAIN is the set of keys that  *)
(* are present; dict.get(k, default) is Get.  Python's None is the string  *)
(* None.  A call's outcome is recorded in `last` (operation, arguments,    *)
(* returned value or raised error, and the store as it was before the      *)
(* call) so that statements about a call are state predicates.             *)
(***************************************************************************)
EXTENDS Integers, Sequences, FiniteSets, TLC

VARIABLES docs, blobs, clock, usedIds, last, calls, writeOrder

vars == <<docs, blobs, clock, usedIds, last, calls, writeOrder>>

----------------------------------------------------------------------------
(* Bounds *)

\* number of identifiers uuid4 can produce
MaxIds == 2
\* number of writes the server clock stamps
MaxTime == 2
\* largest limit passed to get_user_presentations
MaxLimit == 2

----------------------------------------------------------------------------
(* Values *)

None == "None"

Ids == 1..MaxIds

\* ids a caller may ask for: the generated ones and one that never exists
AskIds == 0..MaxIds

\* caller identities
Users == {"u1", "u2"}

\* the optional user_id of get_presentation: any str, or the default None
Requesters == Users \cup {"", None}

Paths == {"a", "b"}

Limits == 0..MaxLimit

EmptyDict == [k \in {} |-> None]

sA == [image_url |-> "ua", image_storage_path |-> "a"]
sB == [image_storage_path |-> "b"]
sN == [image_url |-> "un"]
sE == [image_url |-> "ue", image_storage_path |-> ""]

\* presentation_data arguments of create_presentation
CreateData ==
    << EmptyDict,
       [topic |-> "t1", slides |-> <<sA, sE, sB>>, brand_colors |-> "red"] >>

\* updates arguments of update_presentation
Patches ==
    << [topic |-> "t2"],
       [slides |-> <<sN, sA, sA>>, theme |-> "neon"],
       [user_id |-> "u2", ppt_id |-> 0],
       [updated_at |-> 0, topic |-> "t3"] >>

----------------------------------------------------------------------------
(* Python helpers *)

\* dict.get(k, default)
Get(d, k, default) == IF k \in DOMAIN d THEN d[k] ELSE default

\* truth value of an Optional[str]
Truthy(v) == v # None /\ v # ""

----------------------------------------------------------------------------
(* create_presentation *)

\* variant: an identifier that may repeat an earlier one
uuid4Any(used) == Ids

\* str(uuid.uuid4()): an identifier that no earlier call produced.  The
\* identifiers are opaque, so the unused ones are interchangeable and the
\* first of them stands for any
uuid4(used) == { i \in Ids \ used : \A j \in Ids \ used : i <= j }

\* firestore.SERVER_TIMESTAMP: every write is stamped later than the one before
SERVER_TIMESTAMP(c) == c + 1

\* the document written by create_presentation
doc_data(ppt_id, user_id, presentation_data, now) ==
    [ ppt_id          |-> ppt_id,
      user_id         |-> user_id,
      topic           |-> Get(presentation_data, "topic", ""),
      theme           |-> Get(presentation_data, "theme", "modern"),
      slides          |-> Get(presentation_data, "slides", <<>>),
      slide_count     |-> Len(Get(presentation_data, "slides", <<>>)),
      created_at      |-> now,
      updated_at      |-> now,
      content_sources |-> Get(presentation_data, "content_sources", <<>>),
      brand_colors    |-> Get(presentation_data, "brand_colors", None) ]

\* collection('presentations').document(ppt_id).set(doc_data)
DocSet(ds, ppt_id, data) ==
    [i \in DOMAIN ds \cup {ppt_id} |-> IF i = ppt_id THEN data ELSE ds[i]]

\* document(ppt_id).delete()
DocDelete(ds, ppt_id) == [i \in DOMAIN ds \ {ppt_id} |-> ds[i]]

----------------------------------------------------------------------------
(* get_presentation *)

\* the authorization test of get_presentation: TRUE when access is refused
GetDenied(data, user_id) == Truthy(user_id) /\ data["user_id"] # user_id

\* variant: the backend error is re-raised instead of swallowed
get_presentation_raising(ds, ppt_id, user_id, failed) ==
    IF failed THEN [ret |-> "raise", data |-> <<>>]
    ELSE IF ppt_id \notin DOMAIN ds THEN [ret |-> "None", data |-> <<>>]
    ELSE IF GetDenied(ds[ppt_id], user_id) THEN [ret |-> "None", data |-> <<>>]
    ELSE [ret |-> "Dict", data |-> <<ds[ppt_id]>>]

\* result of get_presentation: ret is "None" or "Dict", data holds the dict
get_presentation(ds, ppt_id, user_id, failed) ==
    IF failed THEN [ret |-> "None", data |-> <<>>]
    ELSE IF ppt_id \notin DOMAIN ds THEN [ret |-> "None", data |-> <<>>]
    ELSE IF GetDenied(ds[ppt_id], user_id) THEN [ret |-> "None", data |-> <<>>]
    ELSE [ret |-> "Dict", data |-> <<ds[ppt_id]>>]

----------------------------------------------------------------------------
(* update_presentation *)

\* the authorization test of update_presentation and delete_presentation
NotOwner(data, user_id) == data["user_id"] # user_id

\* variant: the timestamp is only filled in when the caller gave none
StampedIfAbsent(updates, now) ==
    [k \in DOMAIN updates \cup {"updated_at"} |->
        IF k \in DOMAIN updates THEN updates[k] ELSE now]

\* updates['updated_at'] = firestore.SERVER_TIMESTAMP
Stamped(updates, now) ==
    [k \in DOMAIN updates \cup {"updated_at"} |->
        IF k = "updated_at" THEN now ELSE updates[k]]

\* doc_ref.update(fields): shallow overwrite of the named fields
DocUpdate(data, fields) ==
    [k \in DOMAIN data \cup DOMAIN fields |->
        IF k \in DOMAIN fields THEN fields[k] ELSE data[k]]

----------------------------------------------------------------------------
(* delete_image / delete_presentation *)

\* blob.delete() succeeds when the blob exists and the backend does not fail
BlobDeleteOk(bs, storage_path, failed) == storage_path \in bs /\ ~failed

\* variant: the loop ends at the first delete_image that fails
ImageLoopStop(slides, badSlides) ==
    { i \in 1..Len(slides) :
        /\ Truthy(Get(slides[i], "image_storage_path", None))
        /\ \A j \in 1..(i - 1) :
              Truthy(Get(slides[j], "image_storage_path", None)) => j \notin badSlides }

\* the slides for which the loop of delete_presentation calls delete_image;
\* badSlides are the slides whose blob.delete() raises
ImageLoop(slides, badSlides) ==
    { i \in 1..Len(slides) : Truthy(Get(slides[i], "image_storage_path", None)) }

\* the storage paths passed to delete_image, in call order
RECURSIVE ImageCalls(_, _, _)
ImageCalls(slides, visited, i) ==
    IF i > Len(slides) THEN <<>>
    ELSE IF i \in visited
         THEN <<slides[i]["image_storage_path"]>> \o ImageCalls(slides, visited, i + 1)
         ELSE ImageCalls(slides, visited, i + 1)

\* the bucket after the image loop
BlobsAfterLoop(bs, slides, visited, badSlides) ==
    bs \ { slides[i]["image_storage_path"] : i \in visited \ badSlides }

----------------------------------------------------------------------------
(* get_user_presentations *)

\* the summary appended for one document
Summary(data) ==
    [ ppt_id      |-> Get(data, "ppt_id", None),
      topic       |-> Get(data, "topic", None),
      theme       |-> Get(data, "theme", None),
      slide_count |-> Get(data, "slide_count", 0),
      created_at  |-> Get(data, "created_at", None),
      updated_at  |-> Get(data, "updated_at", None),
      thumbnail   |-> IF Len(Get(data, "slides", <<>>)) > 0
                      THEN Get(Get(data, "slides", <<EmptyDict>>)[1], "image_url", None)
                      ELSE None ]

\* variant: the query without its owner filter
WhereAll(ds, user_id) == DOMAIN ds

\* .where('user_id', '==', user_id)
Where(ds, user_id) == { i \in DOMAIN ds : ds[i]["user_id"] = user_id }

\* .order_by('created_at', direction=DESCENDING): the orders of the matching
\* documents the backend may stream (equal timestamps in either order)
OrderBy(ds, matching) ==
    { s \in [1..Cardinality(matching) -> matching] :
        /\ \A i, j \in DOMAIN s : i # j => s[i] # s[j]
        /\ \A i, j \in DOMAIN s : i < j => ds[s[i]]["created_at"] >= ds[s[j]]["created_at"] }

\* .limit(limit)
Limit(s, limit) == SubSeq(s, 1, IF Len(s) < limit THEN Len(s) ELSE limit)

----------------------------------------------------------------------------
(* Identity backend: firebase_admin.auth *)

Tokens == {"tok1", "tok2", "bad"}

\* users known to the auth backend
AuthUsers == {"u1", "u2"}

\* auth.verify_id_token raises for a token it does not accept
TokenUid(id_token) ==
    IF id_token = "tok1" THEN "u1" ELSE IF id_token = "tok2" THEN "u2" ELSE None

----------------------------------------------------------------------------
(* Record of the most recent call *)

Procs == {1, 2}

IdleCalls == [p \in Procs |-> [pc |-> "idle", user |-> None, updates |-> EmptyDict,
                                data |-> <<>>, ret |-> "None"]]

Call(op, ppt_id, user, arg, limit, ret, data, fail, img_calls, img_bad) ==
    [ op |-> op, ppt_id |-> ppt_id, user |-> user, arg |-> arg, limit |-> limit,
      ret |-> ret, data |-> data, fail |-> fail,
      img_calls |-> img_calls, img_bad |-> img_bad,
      pre_docs |-> docs, pre_blobs |-> blobs, pre_used |-> usedIds, now |-> clock ]

\* no call has a response outstanding
NoCall ==
    [ op |-> "idle", ppt_id |-> 0, user |-> None, arg |-> EmptyDict,
      limit |-> 0, ret |-> "None", data |-> <<>>, fail |-> "none",
      img_calls |-> <<>>, img_bad |-> {},
      pre_docs |-> [i \in {} |-> EmptyDict], pre_blobs |-> {}, pre_used |-> {},
      now |-> 0 ]

\* the calls are synchronous: the caller makes one call and takes its response
Ready == last.op = "idle"

Init ==
    /\ docs = [i \in {} |-> EmptyDict]
    /\ blobs = {}
    /\ clock = 0
    /\ usedIds = {}
    /\ last = NoCall
    /\ calls = IdleCalls
    /\ writeOrder = <<>>

----------------------------------------------------------------------------
(* Authentication *)

verify_token ==
    \E id_token \in Tokens, failed \in BOOLEAN :
        /\ Ready
        /\ last' = IF failed \/ TokenUid(id_token) = None
                   THEN Call("verify_token", 0, id_token, EmptyDict, 0, "None", <<>>,
                             "verify_id_token", <<>>, {})
                   ELSE Call("verify_token", 0, id_token, EmptyDict, 0, "Dict",
                             <<[uid |-> TokenUid(id_token)]>>, "none", <<>>, {})
        /\ UNCHANGED <<docs, blobs, clock, usedIds, calls, writeOrder>>

get_user ==
    \E uid \in Users \cup {""}, failed \in BOOLEAN :
        /\ Ready
        /\ last' = IF failed \/ uid \notin AuthUsers
                   THEN Call("get_user", 0, uid, EmptyDict, 0, "None", <<>>,
                             "get_user", <<>>, {})
                   ELSE Call("get_user", 0, uid, EmptyDict, 0, "Dict",
                             <<[uid |-> uid]>>, "none", <<>>, {})
        /\ UNCHANGED <<docs, blobs, clock, usedIds, calls, writeOrder>>

create_custom_token ==
    \E uid \in Users \cup {""}, failed \in BOOLEAN :
        /\ Ready
        /\ last' = IF failed \/ uid = ""
                   THEN Call("create_custom_token", 0, uid, EmptyDict, 0, "None", <<>>,
                             "create_custom_token", <<>>, {})
                   ELSE Call("create_custom_token", 0, uid, EmptyDict, 0, "Token",
                             <<[uid |-> uid]>>, "none", <<>>, {})
        /\ UNCHANGED <<docs, blobs, clock, usedIds, calls, writeOrder>>

----------------------------------------------------------------------------
(* Storage *)

\* upload_image and upload_image_from_bytes: upload, make_public, public_url
Upload(op, destination_path, fail) ==
    /\ Ready
    /\ blobs' = IF fail = "upload" THEN blobs ELSE blobs \cup {destination_path}
    /\ last' = IF fail # "none"
               THEN Call(op, 0, destination_path, EmptyDict, 0, "None", <<>>, fail, <<>>, {})
               ELSE Call(op, 0, destination_path, EmptyDict, 0, "Url",
                         <<[path |-> destination_path]>>, "none", <<>>, {})
    /\ UNCHANGED <<docs, clock, usedIds, calls, writeOrder>>

upload_image ==
    \E destination_path \in Paths, fail \in {"none", "upload", "make_public"} :
        Upload("upload_image", destination_path, fail)

upload_image_from_bytes ==
    \E destination_path \in Paths, fail \in {"none", "upload", "make_public"} :
        Upload("upload_image_from_bytes", destination_path, fail)

delete_image ==
    \E storage_path \in Paths, failed \in BOOLEAN :
        /\ Ready
        /\ blobs' = IF BlobDeleteOk(blobs, storage_path, failed)
                    THEN blobs \ {storage_path} ELSE blobs
        /\ last' = IF BlobDeleteOk(blobs, storage_path, failed)
                   THEN Call("delete_image", 0, storage_path, EmptyDict, 0, "True", <<>>,
                             "none", <<>>, {})
                   ELSE Call("delete_image", 0, storage_path, EmptyDict, 0, "False", <<>>,
                             "blob.delete", <<>>, {})
        /\ UNCHANGED <<docs, clock, usedIds, calls, writeOrder>>

----------------------------------------------------------------------------
(* Firestore - presentations *)

create_presentation ==
    \E user_id \in Users, d \in DOMAIN CreateData, failed \in BOOLEAN :
      \E ppt_id \in uuid4(usedIds) :
        /\ Ready
        /\ clock < MaxTime
        /\ usedIds' = usedIds \cup {ppt_id}
        /\ IF failed
           THEN /\ docs' = docs
                /\ clock' = clock
                /\ last' = Call("create_presentation", ppt_id, user_id, CreateData[d], 0,
                                "raise", <<>>, "set", <<>>, {})
           ELSE /\ docs' = DocSet(docs, ppt_id,
                                  doc_data(ppt_id, user_id, CreateData[d],
                                           SERVER_TIMESTAMP(clock)))
                /\ clock' = SERVER_TIMESTAMP(clock)
                /\ last' = Call("create_presentation", ppt_id, user_id, CreateData[d], 0,
                                "Id", <<>>, "none", <<>>, {})
        /\ UNCHANGED <<blobs, calls, writeOrder>>

get_presentation_call ==
    \E ppt_id \in AskIds, user_id \in Requesters, failed \in BOOLEAN :
        /\ Ready
        /\ LET r == get_presentation(docs, ppt_id, user_id, failed)
           IN last' = Call("get_presentation", ppt_id, user_id, EmptyDict, 0,
                           r.ret, r.data, IF failed THEN "get" ELSE "none", <<>>, {})
        /\ UNCHANGED <<docs, blobs, clock, usedIds, calls, writeOrder>>

update_presentation ==
    \E ppt_id \in AskIds, user_id \in Users, p \in DOMAIN Patches,
       fail \in {"none", "get", "update"} :
        /\ Ready
        /\ clock < MaxTime
        /\ fail = "update" => (ppt_id \in DOMAIN docs /\ ~NotOwner(docs[ppt_id], user_id))
        /\ IF fail = "none" /\ ppt_id \in DOMAIN docs /\ ~NotOwner(docs[ppt_id], user_id)
           THEN /\ docs' = DocSet(docs, ppt_id,
                                  DocUpdate(docs[ppt_id],
                                            Stamped(Patches[p], SERVER_TIMESTAMP(clock))))
                /\ clock' = SERVER_TIMESTAMP(clock)
                /\ last' = Call("update_presentation", ppt_id, user_id, Patches[p], 0,
                                "True", <<>>, "none", <<>>, {})
           ELSE /\ docs' = docs
                /\ clock' = clock
                /\ last' = Call("update_presentation", ppt_id, user_id, Patches[p], 0,
                                "False", <<>>, fail, <<>>, {})
        /\ UNCHANGED <<blobs, usedIds, calls, writeOrder>>

\* the slides whose blob.delete() raises: a backend failure or a missing blob
FailingSlides(bs, slides, backendBad) ==
    { i \in 1..Len(slides) :
        i \in backendBad \/ Get(slides[i], "image_storage_path", None) \notin bs }

\* variant: the images are deleted before the ownership test
delete_presentation_unchecked(ds, bs, ppt_id, user_id, fail, backendBad) ==
    IF fail = "get" \/ ppt_id \notin DOMAIN ds
    THEN [ ret |-> "False", docs |-> ds, blobs |-> bs, img_calls |-> <<>>,
           img_bad |-> {} ]
    ELSE LET slides  == Get(ds[ppt_id], "slides", <<>>)
             bad     == FailingSlides(bs, slides, backendBad)
             visited == ImageLoop(slides, bad)
             denied  == NotOwner(ds[ppt_id], user_id)
         IN [ ret       |-> IF denied \/ fail = "delete" THEN "False" ELSE "True",
              docs      |-> IF denied \/ fail = "delete" THEN ds
                            ELSE DocDelete(ds, ppt_id),
              blobs     |-> BlobsAfterLoop(bs, slides, visited, bad),
              img_calls |-> ImageCalls(slides, visited, 1),
              img_bad   |-> bad ]

\* delete_presentation: fail names the Firestore call that raises ("get" for
\* doc_ref.get(), "delete" for doc_ref.delete()), backendBad the slides whose
\* blob.delete() raises
delete_presentation_result(ds, bs, ppt_id, user_id, fail, backendBad) ==
    IF fail = "get" \/ ppt_id \notin DOMAIN ds \/ NotOwner(ds[ppt_id], user_id)
    THEN [ ret |-> "False", docs |-> ds, blobs |-> bs, img_calls |-> <<>>,
           img_bad |-> {} ]
    ELSE LET slides  == Get(ds[ppt_id], "slides", <<>>)
             bad     == FailingSlides(bs, slides, backendBad)
             visited == ImageLoop(slides, bad)
         IN [ ret       |-> IF fail = "delete" THEN "False" ELSE "True",
              docs      |-> IF fail = "delete" THEN ds ELSE DocDelete(ds, ppt_id),
              blobs     |-> BlobsAfterLoop(bs, slides, visited, bad),
              img_calls |-> ImageCalls(slides, visited, 1),
              img_bad   |-> bad ]

delete_presentation ==
    \E ppt_id \in AskIds, user_id \in Users, fail \in {"none", "get", "delete"},
       backendBad \in SUBSET (1..3) :
        /\ Ready
        /\ LET reached == ppt_id \in DOMAIN docs /\ ~NotOwner(docs[ppt_id], user_id)
           IN /\ fail = "delete" => reached
              /\ backendBad \subseteq
                    (IF reached /\ fail # "get"
                     THEN 1..Len(Get(docs[ppt_id], "slides", <<>>)) ELSE {})
        /\ LET r == delete_presentation_result(docs, blobs, ppt_id, user_id, fail,
                                               backendBad)
           IN /\ docs' = r.docs
              /\ blobs' = r.blobs
              /\ last' = Call("delete_presentation", ppt_id, user_id, EmptyDict, 0,
                              r.ret, <<>>, fail, r.img_calls, r.img_bad)
        /\ UNCHANGED <<clock, usedIds, calls, writeOrder>>

get_user_presentations ==
    \E user_id \in Users, limit \in Limits, failed \in BOOLEAN :
      \E s \in OrderBy(docs, Where(docs, user_id)) :
        /\ Ready
        /\ last' = IF failed
                   THEN Call("get_user_presentations", 0, user_id, EmptyDict, limit,
                             "List", <<>>, "query", <<>>, {})
                   ELSE Call("get_user_presentations", 0, user_id, EmptyDict, limit,
                             "List",
                             [i \in DOMAIN Limit(s, limit) |-> Summary(docs[s[i]])],
                             "none", <<>>, {})
        /\ UNCHANGED <<docs, blobs, clock, usedIds, calls, writeOrder>>

\* the caller takes the response of the call
Return ==
    /\ ~Ready
    /\ last' = NoCall
    /\ UNCHANGED <<docs, blobs, clock, usedIds, calls, writeOrder>>

Next ==
    \/ verify_token
    \/ get_user
    \/ create_custom_token
    \/ upload_image
    \/ upload_image_from_bytes
    \/ delete_image
    \/ create_presentation
    \/ get_presentation_call
    \/ update_presentation
    \/ delete_presentation
    \/ get_user_presentations
    \/ Return

Spec == Init /\ [][Next]_vars

----------------------------------------------------------------------------
(* Properties of get_presentation *)

\* the record the last call addressed existed before the call
Existed == last.ppt_id \in DOMAIN last.pre_docs

\* the stored owner of the addressed record before the call
StoredOwner == last.pre_docs[last.ppt_id]["user_id"]

\* the response of the last call
Response == [ret |-> last.ret, data |-> last.data]

\* what get_presentation answers for an id that no record has
NotFoundResponse == get_presentation(DocDelete(last.pre_docs, last.ppt_id),
                                     last.ppt_id, last.user, FALSE)

\* C1: with a supplied requester_id that is not the stored user_id,
\* get_presentation answers exactly as it does for an id without a record,
\* and never hands out the record
C1_Indistinguishable ==
    (last.op = "get_presentation" /\ last.user # None /\ Existed
        /\ StoredOwner # last.user)
    => (Response = NotFoundResponse /\ last.ret = "None" /\ last.data = <<>>)

\* C2: a record is returned, modified or removed only for the caller whose id
\* is the stored user_id; any other caller gets the sentinel and the record
\* and the bucket stay as they were
C2_OwnerGated ==
    /\ (last.op \in {"get_presentation", "update_presentation", "delete_presentation"}
          /\ last.user # None /\ Existed /\ StoredOwner # last.user)
       => /\ last.ret \in {"None", "False"}
          /\ last.data = <<>>
          /\ docs = last.pre_docs
          /\ blobs = last.pre_blobs
    /\ last.op = "get_user_presentations"
       => \A i \in DOMAIN last.data :
            \E j \in DOMAIN last.pre_docs :
                /\ last.pre_docs[j]["user_id"] = last.user
                /\ last.data[i] = Summary(last.pre_docs[j])

----------------------------------------------------------------------------
(* Properties of update_presentation *)

\* C3: no call changes the ppt_id or the user_id of a record that exists
\* before and after it
C3_IdOwnerFixed ==
    \A i \in DOMAIN docs \cap DOMAIN last.pre_docs :
        /\ docs[i]["ppt_id"] = last.pre_docs[i]["ppt_id"]
        /\ docs[i]["user_id"] = last.pre_docs[i]["user_id"]

UpdateCall == last.op = "update_presentation"

\* the three outcomes of update_presentation that do not depend on the patch
UpdateReturns ==
    /\ (UpdateCall /\ ~Existed) => last.ret = "False"
    /\ (UpdateCall /\ Existed /\ StoredOwner # last.user) => last.ret = "False"
    /\ (UpdateCall /\ Existed /\ StoredOwner = last.user /\ last.fail = "none")
       => last.ret = "True"

OwnerUpdate == UpdateCall /\ Existed /\ StoredOwner = last.user /\ last.fail = "none"

Before == last.pre_docs[last.ppt_id]
After == docs[last.ppt_id]

\* C4 as stated: the owner's update overwrites exactly the fields named in the
\* patch with the patch's values and moves updated_at forward
C4_Original ==
    /\ UpdateReturns
    /\ OwnerUpdate =>
        /\ last.ppt_id \in DOMAIN docs
        /\ \A k \in DOMAIN last.arg : After[k] = last.arg[k]
        /\ \A k \in DOMAIN Before \ (DOMAIN last.arg \cup {"updated_at"}) :
              After[k] = Before[k]
        /\ After["updated_at"] >= Before["updated_at"]

\* C4 amended: every named field other than updated_at takes the patch's
\* value, every other field keeps its value, and updated_at is the server
\* timestamp whatever the patch says
C4_Update ==
    /\ UpdateReturns
    /\ OwnerUpdate =>
        /\ last.ppt_id \in DOMAIN docs
        /\ DOMAIN After = DOMAIN Before \cup DOMAIN last.arg
        /\ \A k \in DOMAIN last.arg \ {"updated_at"} : After[k] = last.arg[k]
        /\ \A k \in DOMAIN Before \ (DOMAIN last.arg \cup {"updated_at"}) :
              After[k] = Before[k]
        /\ After["updated_at"] = SERVER_TIMESTAMP(last.now)
        /\ After["updated_at"] >= Before["updated_at"]
    /\ (UpdateCall /\ last.ret = "False") => docs = last.pre_docs

C4_Witness ==
    /\ OwnerUpdate
    /\ last.ret = "True"
    /\ "updated_at" \in DOMAIN last.arg
    /\ After["updated_at"] > last.arg["updated_at"]

----------------------------------------------------------------------------
(* Properties of delete_presentation *)

DeleteCall == last.op = "delete_presentation"

CarriesPath(slide) ==
    /\ "image_storage_path" \in DOMAIN slide
    /\ slide["image_storage_path"] \notin {"", None}

\* the storage paths of the slides that carry one, in slide order
PathsOf(slides) ==
    LET carrying == SelectSeq(slides, CarriesPath)
    IN [i \in DOMAIN carrying |-> carrying[i]["image_storage_path"]]

OwnerDelete ==
    DeleteCall /\ Existed /\ StoredOwner = last.user /\ last.fail = "none"

\* C5: the owner's delete calls delete_image once per slide carrying a path,
\* whether or not some of these calls fail, removes the record, returns True,
\* and a get by the owner then returns None
C5_OwnerDelete ==
    OwnerDelete =>
        /\ last.img_calls = PathsOf(Before["slides"])
        /\ \A i \in DOMAIN Before["slides"] :
              (CarriesPath(Before["slides"][i]) /\ i \notin last.img_bad)
              => Before["slides"][i]["image_storage_path"] \notin blobs
        /\ last.ppt_id \notin DOMAIN docs
        /\ last.ret = "True"
        /\ get_presentation(docs, last.ppt_id, last.user, FALSE).ret = "None"

\* an image delete failed and a later one was still made and succeeded
C5_Witness ==
    /\ OwnerDelete
    /\ last.ret = "True"
    /\ \E i, j \in DOMAIN Before["slides"] :
          /\ i < j
          /\ CarriesPath(Before["slides"][i]) /\ i \in last.img_bad
          /\ CarriesPath(Before["slides"][j]) /\ j \notin last.img_bad
          /\ Before["slides"][j]["image_storage_path"] \in last.pre_blobs \ blobs

\* C10 as stated: a delete_presentation that returns False changed nothing
C10_Original ==
    (DeleteCall /\ last.ret = "False")
    => (docs = last.pre_docs /\ blobs = last.pre_blobs)

\* C10 amended: a delete_presentation that returns False leaves every record
\* as it was; the bucket is as it was unless the call failed at the record
\* delete, and then only images of the record's slides are gone
C10_DeleteFalse ==
    (DeleteCall /\ last.ret = "False") =>
        /\ docs = last.pre_docs
        /\ last.fail # "delete" => (blobs = last.pre_blobs /\ last.img_calls = <<>>)
        /\ last.fail = "delete" =>
              /\ blobs \subseteq last.pre_blobs
              /\ \A b \in last.pre_blobs \ blobs :
                    \E i \in DOMAIN last.img_calls : last.img_calls[i] = b

\* the record delete failed after an image had been deleted
C10_Witness ==
    /\ DeleteCall
    /\ last.ret = "False"
    /\ last.fail = "delete"
    /\ blobs # last.pre_blobs
    /\ docs = last.pre_docs

----------------------------------------------------------------------------
(* Properties of create_presentation *)

Created == last.op = "create_presentation" /\ last.ret = "Id"

\* C6: the created record counts the slides given (0 when there are none
\* given), belongs to the caller, takes '' and 'modern' for an absent topic
\* and theme, gets an id no earlier call got, and replaces no record
C6_Create ==
    Created =>
        /\ last.ppt_id \in DOMAIN docs
        /\ "slides" \in DOMAIN last.arg
           => docs[last.ppt_id]["slide_count"] = Len(last.arg["slides"])
        /\ "slides" \notin DOMAIN last.arg => docs[last.ppt_id]["slide_count"] = 0
        /\ docs[last.ppt_id]["user_id"] = last.user
        /\ "topic" \notin DOMAIN last.arg => docs[last.ppt_id]["topic"] = ""
        /\ "theme" \notin DOMAIN last.arg => docs[last.ppt_id]["theme"] = "modern"
        /\ last.ppt_id \notin last.pre_used
        /\ last.ppt_id \notin DOMAIN last.pre_docs
        /\ \A j \in DOMAIN last.pre_docs : j \in DOMAIN docs /\ docs[j] = last.pre_docs[j]

\* a second record is created, with slides, next to an existing one
C6_Witness ==
    /\ Created
    /\ DOMAIN last.pre_docs # {}
    /\ "slides" \in DOMAIN last.arg
    /\ docs[last.ppt_id]["slide_count"] = 3

----------------------------------------------------------------------------
(* Properties of get_user_presentations *)

ListCall == last.op = "get_user_presentations"

\* the thumbnail the summary of a record is to carry
Thumbnail(data) ==
    IF Len(data["slides"]) >= 1
    THEN IF "image_url" \in DOMAIN data["slides"][1]
         THEN data["slides"][1]["image_url"] ELSE None
    ELSE None

\* C7: the list holds at most limit summaries, newest first, each of a
\* different record of the caller and with that record's thumbnail; a failed
\* query gives the empty list
C7_List ==
    /\ (ListCall /\ last.fail = "none") =>
        /\ Len(last.data) <= last.limit
        /\ \A i, j \in DOMAIN last.data :
              i < j => last.data[i]["created_at"] >= last.data[j]["created_at"]
        /\ \E src \in [DOMAIN last.data -> DOMAIN last.pre_docs] :
              /\ \A i, j \in DOMAIN last.data : i # j => src[i] # src[j]
              /\ \A i \in DOMAIN last.data :
                    LET d == last.pre_docs[src[i]]
                    IN /\ d["user_id"] = last.user
                       /\ last.data[i]["created_at"] = d["created_at"]
                       /\ last.data[i]["topic"] = d["topic"]
                       /\ last.data[i]["slide_count"] = d["slide_count"]
                       /\ last.data[i]["thumbnail"] = Thumbnail(d)
    /\ (ListCall /\ last.fail # "none") => (last.ret = "List" /\ last.data = <<>>)
    /\ ListCall => (docs = last.pre_docs /\ blobs = last.pre_blobs)

\* the limit cut the list of a caller while another caller owns a record too
C7_Witness ==
    /\ ListCall
    /\ last.fail = "none"
    /\ Len(last.data) = 1
    /\ last.limit = 1
    /\ last.data[1]["thumbnail"] # None
    /\ \E j \in DOMAIN docs : docs[j]["user_id"] # last.user

----------------------------------------------------------------------------
(* Error handling *)

\* the value an operation returns when its backend call raises
Sentinel(op) ==
    IF op \in {"delete_image", "update_presentation", "delete_presentation"}
    THEN "False"
    ELSE IF op = "get_user_presentations" THEN "List" ELSE "None"

\* C8: when the backend call of an operation raises, create_presentation
\* raises and every other operation returns its sentinel; nothing else raises
C8_Sentinels ==
    /\ (last.fail # "none" /\ last.op # "create_presentation")
       => (last.ret = Sentinel(last.op) /\ last.data = <<>>)
    /\ (last.fail # "none" /\ last.op = "create_presentation") => last.ret = "raise"
    /\ last.ret = "raise" => (last.op = "create_presentation" /\ last.fail # "none")

\* a read swallowed a backend error although the record was there for the caller
C8_Witness ==
    /\ last.op = "get_presentation"
    /\ last.fail # "none"
    /\ last.ret = "None"
    /\ Existed
    /\ StoredOwner = last.user

----------------------------------------------------------------------------
(* Two concurrent update_presentation calls on one record.  Nothing in the  *)
(* service serialises them, so the Firestore read, the ownership test and   *)
(* the Firestore write of the two calls interleave freely.                  *)

RaceId == 1

RaceOwner == "u1"

InitRace ==
    /\ docs = [i \in {RaceId} |->
                 doc_data(RaceId, RaceOwner, CreateData[2], SERVER_TIMESTAMP(0))]
    /\ blobs = {}
    /\ clock = SERVER_TIMESTAMP(0)
    /\ usedIds = {RaceId}
    /\ last = NoCall
    /\ calls \in [Procs -> { [pc |-> "get", user |-> RaceOwner, updates |-> Patches[i],
                              data |-> <<>>, ret |-> "None"] : i \in DOMAIN Patches }]
    /\ writeOrder = <<>>

\* doc = doc_ref.get(); if not doc.exists: return False; data = doc.to_dict()
RaceGet(p) ==
    /\ calls[p].pc = "get"
    /\ calls' = [calls EXCEPT ![p] =
                    IF RaceId \in DOMAIN docs
                    THEN [@ EXCEPT !.pc = "check", !.data = <<docs[RaceId]>>]
                    ELSE [@ EXCEPT !.pc = "done", !.ret = "False"]]
    /\ UNCHANGED <<docs, blobs, clock, usedIds, last, writeOrder>>

\* if data.get('user_id') != user_id: return False
RaceCheck(p) ==
    /\ calls[p].pc = "check"
    /\ calls' = [calls EXCEPT ![p] =
                    IF NotOwner(calls[p].data[1], calls[p].user)
                    THEN [@ EXCEPT !.pc = "done", !.ret = "False"]
                    ELSE [@ EXCEPT !.pc = "write"]]
    /\ UNCHANGED <<docs, blobs, clock, usedIds, last, writeOrder>>

\* updates['updated_at'] = SERVER_TIMESTAMP; doc_ref.update(updates); return True
RaceWrite(p) ==
    /\ calls[p].pc = "write"
    /\ RaceId \in DOMAIN docs
    /\ LET fields == Stamped(calls[p].updates, SERVER_TIMESTAMP(clock))
       IN /\ docs' = DocSet(docs, RaceId, DocUpdate(docs[RaceId], fields))
          /\ calls' = [calls EXCEPT ![p] =
                          [@ EXCEPT !.pc = "done", !.ret = "True", !.updates = fields]]
    /\ clock' = SERVER_TIMESTAMP(clock)
    /\ writeOrder' = Append(writeOrder, p)
    /\ UNCHANGED <<blobs, usedIds, last>>

NextRace == \E p \in Procs : RaceGet(p) \/ RaceCheck(p) \/ RaceWrite(p)

SpecRace == InitRace /\ [][NextRace]_vars

AllDone == \A p \in Procs : calls[p].pc = "done"

\* C9: when both calls have finished, both returned True, every field of the
\* patch written last has that patch's value, and every field named only in
\* the other patch has the other patch's value
C9_LastWriterWins ==
    AllDone =>
        /\ \A p \in Procs : calls[p].ret = "True"
        /\ Len(writeOrder) = 2
        /\ LET w == writeOrder[2]
               o == writeOrder[1]
           IN /\ \A k \in DOMAIN calls[w].updates :
                    docs[RaceId][k] = calls[w].updates[k]
              /\ \A k \in DOMAIN calls[o].updates \ DOMAIN calls[w].updates :
                    docs[RaceId][k] = calls[o].updates[k]

====
